---- MODULE Spec2Model ----
(***************************************************************************)
(* A model of the recommender of a2.py: the relational store it reads, the *)
(* RatingsTable it fills per request, find_similar_curator, and the three  *)
(* operations recommend_generic, recommend and repopulate.                 *)
(*                                                                         *)
(* Conventions.  A rating is an integer 1..MaxRating; 0 in a rating cell   *)
(* stands for "no rating" (SQL: no row, Python: None).  Python values that *)
(* a call can produce are records: a returned list is                      *)
(* [kind |-> "list", items |-> <<..>>], the value None is                  *)
(* [kind |-> "none", items |-> <<>>], and an exception that leaves the     *)
(* method is [kind |-> "TypeError" or "IndexError", items |-> <<>>].       *)
(***************************************************************************)
EXTENDS Integers, Sequences, FiniteSets

\* ------------------------------------------------------------------ bounds
NumCustomers == 2
NumCurators == 1
NumItems == 3
MaxRating == 2
MaxK == 2

\* find_similar_curator on its own is given tables of NumPeople people who
\* rate the first NumRated items.
NumPeople == 3
NumRated == 2

Customers == 1..NumCustomers
\* The ids a RatingsTable may hold.
People == 1..(IF NumPeople > NumCustomers THEN NumPeople ELSE NumCustomers)
\* The curators (the CIDs of view q3 that repopulate joins with Review).
Curators == 1..NumCurators
Items == 1..NumItems
NoRating == 0
\* find_similar_curator's "no curator" result (Python None); CIDs are >= 1.
NoCurator == 0

\* ------------------------------------------------------------ small helpers
RECURSIVE SumOver(_, _)
SumOver(S, f) ==
  IF S = {} THEN 0
  ELSE LET x == CHOOSE y \in S : TRUE IN f[x] + SumOver(S \ {x}, f)

Abs(n) == IF n < 0 THEN 0 - n ELSE n

IndexOf(s, x) == CHOOSE j \in 1..Len(s) : s[j] = x

\* The sequences over S in which no element repeats.
RECURSIVE DistinctSeqs(_)
DistinctSeqs(S) ==
  {<<>>} \cup UNION {{<<x>> \o s : s \in DistinctSeqs(S \ {x})} : x \in S}

Range(s) == {s[j] : j \in 1..Len(s)}

\* ------------------------------------------------------------ RatingsTable
\* ratings.RatingsTable(num_people, num_items): a grid of num_people rows and
\* num_items columns, every cell empty, and no person or item indexed yet.
\* people and items list the ids in the order they were given an index; cells
\* holds the grid by id.
NewRatingsTable(numPeople, numItems) ==
  [np |-> numPeople, ni |-> numItems, people |-> <<>>, items |-> <<>>,
   cells |-> [cell \in People \X Items |-> NoRating], overflow |-> FALSE]

\* The row and column set_rating gives an id: its index if it has one, the
\* next free index otherwise.
WithId(ids, x) == IF x \in Range(ids) THEN ids ELSE Append(ids, x)

\* set_rating(person, item, rating).  gr says whether the table extends
\* itself when an id needs an index beyond the constructor's sizes; when it
\* does not, the write is out of range (overflow) and the table is unchanged.
SetRating(t, gr, person, item, rating) ==
  LET people == WithId(t.people, person)
      items == WithId(t.items, item)
  IN IF t.overflow THEN t
     ELSE IF ~gr /\ (Len(people) > t.np \/ Len(items) > t.ni)
       THEN [t EXCEPT !.overflow = TRUE]
     ELSE [t EXCEPT !.people = people, !.items = items,
                    !.np = IF Len(people) > t.np THEN Len(people) ELSE t.np,
                    !.ni = IF Len(items) > t.ni THEN Len(items) ELSE t.ni,
                    !.cells[<<person, item>>] = rating]

RECURSIVE SetRatings(_, _, _)
\* set_rating for each row of a cursor, in the cursor's order.
SetRatings(t, gr, rows) ==
  IF rows = <<>> THEN t
  ELSE SetRatings(SetRating(t, gr, rows[1][1], rows[1][2], rows[1][3]),
                  gr, Tail(rows))

HasRow(t, person) == person \in Range(t.people)

\* get_all_ratings(person): the person's row, one slot per column of the
\* table, NoRating where the person has not rated the column's item (or the
\* column has no item yet).  Asked only of a person with a row; the caller
\* tests HasRow for the "absent" answer (None).
GetAllRatings(t, person) ==
  [j \in 1..t.ni |->
     IF j <= Len(t.items) THEN t.cells[<<person, t.items[j]>>] ELSE NoRating]

\* ---------------------------------------------------- find_similar_curator
\* Variant of CuratorStep with "diff <= min_diff" at line 357: the last of
\* several equally close curators wins.
CuratorStepLastWins(t, cust_id, acc, curator) ==
  IF acc.raised THEN acc
  ELSE IF ~HasRow(t, curator) THEN [acc EXCEPT !.raised = TRUE]
  ELSE
    LET cur_rating == GetAllRatings(t, curator)
        rated == {i \in 1..t.ni : cur_rating[i] # NoRating}
    IN IF ~HasRow(t, cust_id)
         THEN IF rated # {} THEN [acc EXCEPT !.raised = TRUE] ELSE acc
       ELSE
         LET cust_rating == GetAllRatings(t, cust_id)
             both == {i \in rated : cust_rating[i] # NoRating}
             d == [i \in both |-> Abs(cur_rating[i] - cust_rating[i])]
             diff_sum == SumOver(both, d)
             num_rtings == Cardinality(both)
         IN IF num_rtings # 0
               /\ (acc.den = 0 \/ diff_sum * acc.den <= acc.num * num_rtings)
              THEN [acc EXCEPT !.curator = curator, !.num = diff_sum,
                               !.den = num_rtings]
              ELSE acc

\* Variant of CuratorStep without the test of line 355: a curator who shares
\* no rated item with the customer counts as one at difference 0.
CuratorStepZeroOverlap(t, cust_id, acc, curator) ==
  IF acc.raised THEN acc
  ELSE IF ~HasRow(t, curator) THEN [acc EXCEPT !.raised = TRUE]
  ELSE
    LET cur_rating == GetAllRatings(t, curator)
        rated == {i \in 1..t.ni : cur_rating[i] # NoRating}
    IN IF ~HasRow(t, cust_id)
         THEN IF rated # {} THEN [acc EXCEPT !.raised = TRUE] ELSE acc
       ELSE
         LET cust_rating == GetAllRatings(t, cust_id)
             both == {i \in rated : cust_rating[i] # NoRating}
             d == [i \in both |-> Abs(cur_rating[i] - cust_rating[i])]
             diff_sum == SumOver(both, d)
             num_rtings == IF both = {} THEN 1 ELSE Cardinality(both)
         IN IF acc.den = 0 \/ diff_sum * acc.den < acc.num * num_rtings
              THEN [acc EXCEPT !.curator = curator, !.num = diff_sum,
                               !.den = num_rtings]
              ELSE acc

\* One pass of the loop over curator_ids (lines 345-359).  acc is the loop's
\* state: the best curator so far and its difference num/den, den = 0 while
\* min_diff is still float('inf'); raised once an exception has left the loop.
\* diff < min_diff compares two quotients of small integers, which float
\* division orders as the rationals are ordered: cross-multiplied here.
CuratorStep(t, cust_id, acc, curator) ==
  IF acc.raised THEN acc
  ELSE IF ~HasRow(t, curator) THEN [acc EXCEPT !.raised = TRUE]
  ELSE
    LET cur_rating == GetAllRatings(t, curator)
        rated == {i \in 1..t.ni : cur_rating[i] # NoRating}
    IN IF ~HasRow(t, cust_id)
         \* cust_rating is None: cust_rating[i] raises TypeError at the first
         \* column the curator has rated.
         THEN IF rated # {} THEN [acc EXCEPT !.raised = TRUE] ELSE acc
       ELSE
         LET cust_rating == GetAllRatings(t, cust_id)
             both == {i \in rated : cust_rating[i] # NoRating}
             d == [i \in both |-> Abs(cur_rating[i] - cust_rating[i])]
             diff_sum == SumOver(both, d)
             num_rtings == Cardinality(both)
         IN IF num_rtings # 0
               /\ (acc.den = 0 \/ diff_sum * acc.den < acc.num * num_rtings)
              THEN [acc EXCEPT !.curator = curator, !.num = diff_sum,
                               !.den = num_rtings]
              ELSE acc

RECURSIVE CuratorLoop(_, _, _, _)
CuratorLoop(t, cust_id, acc, curator_ids) ==
  IF curator_ids = <<>> THEN acc
  ELSE CuratorLoop(t, cust_id, CuratorStep(t, cust_id, acc, curator_ids[1]),
                   Tail(curator_ids))

\* find_similar_curator(ratings, curator_ids, cust_id): the curator returned
\* (NoCurator for None), or the TypeError raised.
FindSimilarCurator(t, curator_ids, cust_id) ==
  LET acc == CuratorLoop(t, cust_id,
                         [curator |-> NoCurator, num |-> 0, den |-> 0,
                          raised |-> FALSE], curator_ids)
  IN IF acc.raised THEN [kind |-> "TypeError", curator |-> NoCurator]
     ELSE [kind |-> "return", curator |-> acc.curator]

\* ---------------------------------------------------------------- bounds 2
\* The largest number of rows of table Review, and of table Purchase, in an
\* initial database.  A purchase has one line item, of quantity 1, for each
\* item of its basket.
MaxReviews == 3
MaxPurchases == 1
MaxFaultyReviews == 2
\* The largest number of LineItem rows (each of quantity 1, any customers'
\* purchases) in the databases of SpecBought, whose customers have bought some
\* Popular Items and not others.
MaxLineItems == 2

\* Item.category: odd items are in one category, even items in the other.
Category(i) == 1 + (i % 2)

\* ------------------------------------------------------------------- state
VARIABLES
  Review,            \* Review(CID, IID, rating): [Customers \X Items -> 0..MaxRating]
  Sold,              \* Purchase NATURAL JOIN LineItem: units of the item the customer bought
  PopularItems,      \* the snapshot table PopularItems(IID)
  DefinitiveRatings, \* the snapshot table DefinitiveRatings(CID, IID, rating)
  fkeyPresent,       \* constraint definitiveratings_cid_fkey exists
  aborted,           \* a pg.Error has left the connection's transaction failed
  views,             \* the views that exist on the connection
  refreshed,         \* repopulate has completed at least once
  scanOrder,         \* the order in which the store yields rows no ORDER BY ranks
  faulty,            \* the store may fail a statement (a data-source failure)
  last,              \* the last call: its arguments and what it gave the caller
  \* find_similar_curator on its own
  mTable, mCurators, mTarget, mResult, mDone

vars == <<Review, Sold, PopularItems, DefinitiveRatings, fkeyPresent, aborted,
          views, refreshed, scanOrder, faulty, last,
          mTable, mCurators, mTarget, mResult, mDone>>

storeVars == <<Review, Sold, PopularItems, DefinitiveRatings, fkeyPresent,
               aborted, views, refreshed, scanOrder, faulty, last>>

matcherVars == <<mTable, mCurators, mTarget, mResult, mDone>>

Cells == Customers \X Items

NoCall ==
  [op |-> "none", live |-> FALSE, cust |-> 0, k |-> 0, kind |-> "none",
   items |-> <<>>, ret |-> 0, fault |-> FALSE, fellBack |-> FALSE,
   curator |-> NoCurator]

\* --------------------------------------------------------------- SQL pieces
\* Position of an item (or a CID) in the order the store yields unranked rows.
ScanPos(x) == IndexOf(scanOrder, x)

\* The rows of a set of ids in the store's own order.
RECURSIVE InScanOrder(_)
InScanOrder(S) ==
  IF S = {} THEN <<>>
  ELSE LET x == CHOOSE y \in S : \A z \in S : ScanPos(y) <= ScanPos(z)
       IN <<x>> \o InScanOrder(S \ {x})

\* a score is a quotient num/den (den > 0); NULL is den = 0.
Null == [num |-> 0, den |-> 0]
IsNull(v) == v.den = 0
ScoreGT(a, b) == a.num * b.den > b.num * a.den
ScoreEQ(a, b) == a.num * b.den = b.num * a.den
ScoreGE(a, b) == ScoreGT(a, b) \/ ScoreEQ(a, b)

\* ORDER BY score DESC over rows [iid, score]: ties come out in the store's
\* own order.
RECURSIVE OrderByScoreDesc(_)
OrderByScoreDesc(rows) ==
  IF rows = {} THEN <<>>
  ELSE LET r == CHOOSE x \in rows : \A y \in rows \ {x} :
                  \/ ScoreGT(x.score, y.score)
                  \/ ScoreEQ(x.score, y.score) /\ ScanPos(x.iid) < ScanPos(y.iid)
       IN <<r>> \o OrderByScoreDesc(rows \ {r})

\* Variant of OrderByScoreDescIid that leaves equal scores in the store's
\* order (line 131 and line 241 without their second sort key).
RerankByScoreOnly(rows) == OrderByScoreDesc(rows)

\* ORDER BY score DESC, IID ASC.
RECURSIVE OrderByScoreDescIid(_)
OrderByScoreDescIid(rows) ==
  IF rows = {} THEN <<>>
  ELSE LET r == CHOOSE x \in rows : \A y \in rows \ {x} :
                  \/ ScoreGT(x.score, y.score)
                  \/ ScoreEQ(x.score, y.score) /\ x.iid < y.iid
       IN <<r>> \o OrderByScoreDescIid(rows \ {r})

\* Variant of Limit that keeps every row (a query without its LIMIT).
NoLimit(rows, k) == rows

\* LIMIT k.
Limit(rows, k) == SubSeq(rows, 1, IF Len(rows) < k THEN Len(rows) ELSE k)

\* SELECT MIN(score) FROM (rows): NULL over no rows.
MinScore(rows) ==
  IF rows = <<>> THEN Null
  ELSE rows[CHOOSE j \in 1..Len(rows) :
              \A l \in 1..Len(rows) : ScoreGE(rows[l].score, rows[j].score)].score

\* SELECT COUNT(IID) FROM rows WHERE score >= v: no row passes a NULL v.
CountGE(rows, v) ==
  IF IsNull(v) THEN 0
  ELSE Cardinality({j \in 1..Len(rows) : ScoreGE(rows[j].score, v)})

Iids(rows) == [j \in 1..Len(rows) |-> rows[j].iid]

MinOf(S) == CHOOSE x \in S : \A y \in S : x <= y

\* ------------------------------------------------------- recommend_generic
\* except pg.Error: return None (lines 140-141, 266-267).  The failed statement
\* leaves the connection's transaction failed, and nothing rolls it back: no
\* later statement runs, and what the transaction created (vw) is lost.
\* Variant of OnPgError that returns the empty list (results, set at line 98)
\* from the except clause.
OnPgErrorEmptyList(vw, fault) ==
  [kind |-> "list", items |-> <<>>, aborted |-> TRUE, views |-> {},
   fault |-> fault, fellBack |-> FALSE, curator |-> NoCurator]

OnPgError(vw, fault) ==
  [kind |-> "none", items |-> <<>>, aborted |-> TRUE, views |-> {},
   fault |-> fault, fellBack |-> FALSE, curator |-> NoCurator]

\* Variant of RatingAverage that joins PopularItems with DefinitiveRatings
\* instead of Review: the average of the curators' ratings.
RatingAverageOfCurators ==
  {[iid |-> i,
    score |-> [num |-> SumOver(Customers,
                               [c \in Customers |-> DefinitiveRatings[c, i]]),
               den |-> Cardinality({c \in Customers :
                                      DefinitiveRatings[c, i] # NoRating})]] :
   i \in {j \in PopularItems :
            \E c \in Customers : DefinitiveRatings[c, j] # NoRating}}

\* View ratingAverage without its ORDER BY (lines 105-108): one row for each
\* Popular Item that has a Review row, scored SUM(rating)/COUNT(rating) over
\* the Review rows of every customer.
RatingAverage ==
  {[iid |-> i,
    score |-> [num |-> SumOver(Customers, [c \in Customers |-> Review[c, i]]),
               den |-> Cardinality({c \in Customers : Review[c, i] # NoRating})]] :
   i \in {j \in PopularItems : \E c \in Customers : Review[c, j] # NoRating}}

\* The list recommend_generic builds when no statement fails (lines 98-136).
GenericItems(k) ==
  LET popular_number == Cardinality(PopularItems)
      ra == OrderByScoreDesc(RatingAverage)
      min_a == MinScore(Limit(ra, k))
      n == CountGE(ra, min_a)
  IN IF popular_number <= k THEN InScanOrder(PopularItems)
     ELSE IF n <= k THEN Iids(Limit(ra, k))
     ELSE Iids(Limit(OrderByScoreDescIid(RatingAverage), k))

\* recommend_generic(k) on a connection that holds the views vw; items is the
\* list it builds when no statement fails.  Its statements, in order: 1 cursor(), 2 COUNT (99); then
\* either 3 SELECT (102), 4 DROP VIEW (137); or 3 CREATE VIEW (105), 4 SELECT
\* (109), 5 MIN (115), 6 COUNT (120), 7 SELECT (126 or 130), 8 DROP VIEW
\* (137).  failAt is the statement at which the store fails (0: at none).
RecommendGenericCall(k, items, failAt, vw) ==
  LET short == Cardinality(PopularItems) <= k
      steps == IF short THEN 4 ELSE 8
      errs == {s \in 1..steps :
                 \/ s = failAt
                 \/ ~short /\ s = 3 /\ "ratingAverage" \in vw}
  IN IF errs # {}
       THEN OnPgError(IF ~short /\ MinOf(errs) > 3
                        THEN vw \cup {"ratingAverage"} ELSE vw,
                      MinOf(errs) = failAt)
       ELSE [kind |-> "list", items |-> items, aborted |-> FALSE,
             views |-> vw \ {"ratingAverage"}, fault |-> FALSE,
             fellBack |-> FALSE, curator |-> NoCurator]

\* --------------------------------------------------------------- recommend
\* The CIDs and IIDs that have a row in DefinitiveRatings.
DefCids == {c \in Customers : \E i \in Items : DefinitiveRatings[c, i] # NoRating}
DefIids == {i \in Items : \E c \in Customers : DefinitiveRatings[c, i] # NoRating}

\* SELECT * FROM custRating (lines 194-198): the customer's Review rows on
\* Popular Items.
CustRatingRows(cust) ==
  LET iids == InScanOrder({i \in PopularItems : Review[cust, i] # NoRating})
  IN [j \in 1..Len(iids) |-> <<cust, iids[j], Review[cust, iids[j]]>>]

\* SELECT * FROM DefinitiveRatings (line 208).
RECURSIVE DefRows(_)
DefRows(cids) ==
  IF cids = <<>> THEN <<>>
  ELSE LET c == cids[1]
           iids == InScanOrder({i \in Items : DefinitiveRatings[c, i] # NoRating})
       IN [j \in 1..Len(iids) |-> <<c, iids[j], DefinitiveRatings[c, iids[j]]>>]
          \o DefRows(Tail(cids))

\* The RatingsTable recommend fills (lines 192-210).
FilledTable(cust, gr) ==
  LET t0 == NewRatingsTable(Cardinality(DefCids) + 1, Cardinality(DefIids))
      t1 == SetRatings(t0, gr, CustRatingRows(cust))
  IN [afterCust |-> t1,
      afterAll |-> SetRatings(t1, gr, DefRows(InScanOrder(DefCids)))]

\* Variant of ItemLeft without the NOT EXISTS over custIID: items the
\* customer has bought stay in.
ItemLeftWithBought(cust, curator) ==
  {[iid |-> i, score |-> [num |-> DefinitiveRatings[curator, i], den |-> 1]] :
   i \in {j \in Items : /\ curator # NoCurator
                        /\ DefinitiveRatings[curator, j] # NoRating}}

\* View itemLeft without its ORDER BY (lines 219-228): the curator's
\* DefinitiveRatings rows on items that are in no purchase of the customer.
\* CID = NULL (curator None) selects no row.
ItemLeft(cust, curator) ==
  {[iid |-> i, score |-> [num |-> DefinitiveRatings[curator, i], den |-> 1]] :
   i \in {j \in Items : /\ curator # NoCurator
                        /\ DefinitiveRatings[curator, j] # NoRating
                        /\ Sold[cust, j] = 0}}

\* View result (lines 230-242).
ResultView(cust, curator, k) ==
  LET il == OrderByScoreDesc(ItemLeft(cust, curator))
      min_r == MinScore(Limit(il, k))
      n == CountGE(il, min_r)
  IN IF n <= k THEN Iids(Limit(il, k))
     ELSE Iids(Limit(OrderByScoreDescIid(ItemLeft(cust, curator)), k))

RecommendViews == {"custRating", "custIID", "itemLeft", "result"}

\* What recommend(cust, k) computes from the store when no statement fails:
\* the statement after which an exception that is no pg.Error leaves the
\* method (0: none does), the curator found, the rows of view result, and
\* whether line 248 takes the generic branch.
RecommendPlan(cust, k, gr) ==
  LET t == FilledTable(cust, gr)
      found == FindSimilarCurator(t.afterAll, InScanOrder(DefCids), cust)
      result == ResultView(cust, found.curator, k)
      raiseAfter == IF t.afterCust.overflow THEN 4
                    ELSE IF t.afterAll.overflow THEN 5
                    ELSE IF found.kind = "TypeError" THEN 6 ELSE 0
      fallback == found.curator = NoCurator \/ Len(result) = 0
  IN [raiseAfter |-> raiseAfter,
      raises |-> IF raiseAfter = 6 THEN "TypeError" ELSE "IndexError",
      curator |-> found.curator,
      result |-> result,
      fallback |-> fallback,
      generic |-> IF raiseAfter = 0 /\ fallback THEN GenericItems(k) ELSE <<>>]

\* recommend(cust, k), given its plan.  Its statements: 1 cursor(), 2 COUNT
\* (183), 3 CREATE VIEW custRating (194), 4 SELECT (198), [set_rating loop
\* 205-206], 5 SELECT (208), [set_rating loop 209-210], 6 SELECT DISTINCT CID
\* (212), [find_similar_curator 217], 7 CREATE VIEW custIID (219), 8 CREATE
\* VIEW itemLeft (223), 9 MIN (230), 10 COUNT (233), 11 CREATE VIEW result
\* (237 or 240), 12 COUNT (244); then either 13-16 the DROP VIEWs (249-252)
\* and recommend_generic(k) (254), whose statements count on from 17; or 13
\* SELECT (256) and 14-17 the DROP VIEWs (260-263).
RecommendCall(k, plan, failAt, vw) ==
  LET steps == IF plan.raiseAfter > 0 THEN plan.raiseAfter
               ELSE IF plan.fallback THEN 16 ELSE 17
      errs == {s \in 1..steps :
                 \/ s = failAt
                 \/ s = 3 /\ "custRating" \in vw
                 \/ s = 7 /\ "custIID" \in vw
                 \/ s = 8 /\ "itemLeft" \in vw
                 \/ s = 11 /\ "result" \in vw}
      created(upto) == {v \in RecommendViews :
                          \/ v = "custRating" /\ upto > 3
                          \/ v = "custIID" /\ upto > 7
                          \/ v = "itemLeft" /\ upto > 8
                          \/ v = "result" /\ upto > 11}
  IN IF errs # {}
       THEN OnPgError(vw \cup created(MinOf(errs)), MinOf(errs) = failAt)
     ELSE IF plan.raiseAfter > 0
       THEN [kind |-> plan.raises, items |-> <<>>, aborted |-> FALSE,
             views |-> vw \cup created(plan.raiseAfter + 1), fault |-> FALSE,
             fellBack |-> FALSE, curator |-> NoCurator]
     ELSE IF plan.fallback
       THEN [RecommendGenericCall(k, plan.generic,
                                  IF failAt > 16 THEN failAt - 16 ELSE 0,
                                  vw \ RecommendViews)
               EXCEPT !.fellBack = TRUE, !.curator = plan.curator,
                      !.fault = failAt > 16 /\ @]
     ELSE [kind |-> "list", items |-> plan.result, aborted |-> FALSE,
           views |-> vw \ RecommendViews, fault |-> FALSE,
           fellBack |-> FALSE, curator |-> plan.curator]

\* -------------------------------------------------------------- repopulate
\* View totalNumber (lines 288-290): SUM(quantity) of the items that have a
\* LineItem row.
TotalNumber(i) == SumOver(Customers, [c \in Customers |-> Sold[c, i]])

\* View popular (lines 292-296): row_number() <= 2 within the item's category
\* by quantity DESC; equal quantities are numbered in the store's own order.
Popular ==
  LET sold == {i \in Items : TotalNumber(i) > 0}
      before(i) == {j \in sold :
                      /\ Category(j) = Category(i)
                      /\ \/ TotalNumber(j) > TotalNumber(i)
                         \/ TotalNumber(j) = TotalNumber(i) /\ ScanPos(j) < ScanPos(i)}
  IN {i \in sold : Cardinality(before(i)) + 1 <= 2}

\* View definitive (lines 300-302) over the new PopularItems: the Review rows
\* of the curators (q3) on Popular Items.
Definitive(popular) ==
  [cell \in Cells |->
     IF cell[1] \in Curators /\ cell[2] \in popular THEN Review[cell] ELSE NoRating]

\* repopulate().  Its statements: 1 cursor(), 2-3 DELETE (285-286), 4 CREATE
\* VIEW totalNumber (288), 5 CREATE VIEW popular (292), 6 INSERT (298),
\* 7 CREATE VIEW definitive (300), 8 ALTER TABLE ... DROP CONSTRAINT (304),
\* 9 INSERT (307), 10-12 DROP VIEW (310-312), 13 commit (313).  A statement
\* that fails leaves the transaction failed and nothing of it committed.
RepopulateCall(failAt, vw) ==
  LET errs == {s \in 1..13 :
                 \/ s = failAt
                 \/ s = 4 /\ "totalNumber" \in vw
                 \/ s = 5 /\ "popular" \in vw
                 \/ s = 7 /\ "definitive" \in vw
                 \/ s = 8 /\ ~fkeyPresent}
  IN IF errs # {}
       THEN [ret |-> 0 - 1, aborted |-> TRUE, fault |-> MinOf(errs) = failAt,
             popular |-> PopularItems, definitive |-> DefinitiveRatings,
             fkey |-> fkeyPresent, done |-> refreshed]
       ELSE [ret |-> 0, aborted |-> FALSE, fault |-> FALSE,
             popular |-> Popular, definitive |-> Definitive(Popular),
             fkey |-> FALSE, done |-> TRUE]

\* ---------------------------------------------------------------- the store
ScanIds == 1..(IF NumItems > NumCustomers THEN NumItems ELSE NumCustomers)

\* SQL leaves the order of rows that no ORDER BY ranks to the store.  Of the
\* orders a store may keep, the model takes two: by id, rising and falling.
ScanOrders ==
  {[j \in ScanIds |-> j], [j \in ScanIds |-> Cardinality(ScanIds) + 1 - j]}

Populated(f) == Cardinality({cell \in Cells : f[cell] # 0})

MatcherIdle ==
  /\ mTable = NewRatingsTable(0, 0)
  /\ mCurators = <<>>
  /\ mTarget = 0
  /\ mResult = [kind |-> "none", curator |-> NoCurator]
  /\ mDone = FALSE

\* The Purchase NATURAL JOIN LineItem of a set of purchases.
Purchases == [cust : Customers, basket : SUBSET Items \ {{}}]
SoldIn(ps) ==
  [cell \in Cells |->
     Cardinality({p \in ps : p.cust = cell[1] /\ cell[2] \in p.basket})]

SoldByPurchases ==
  {SoldIn(ps) : ps \in {q \in SUBSET Purchases : Cardinality(q) <= MaxPurchases}}

SoldByLineItems == {f \in [Cells -> 0..1] : Populated(f) <= MaxLineItems}

\* A database that conforms to schema.sql, with base data loaded (at most
\* maxReviews rows of Review, sales one of solds) and the snapshot tables
\* still empty, and a Recommender connected to it.
InitStore(maxReviews, solds) ==
  /\ Review \in {f \in [Cells -> 0..MaxRating] : Populated(f) <= maxReviews}
  /\ Sold \in solds
  /\ PopularItems = {}
  /\ DefinitiveRatings = [cell \in Cells |-> NoRating]
  /\ fkeyPresent = TRUE
  /\ aborted = FALSE
  /\ views = {}
  /\ refreshed = FALSE
  /\ scanOrder \in ScanOrders
  /\ last = NoCall
  /\ MatcherIdle

\* A store that fails no statement.
Init == InitStore(MaxReviews, SoldByPurchases) /\ faulty = FALSE

\* A store that may fail any statement, over the smaller databases.
InitFaulty == InitStore(MaxFaultyReviews, SoldByPurchases) /\ faulty = TRUE

\* A store that fails no statement, over databases in which a customer may
\* have bought some Popular Items and not others.
InitBought == InitStore(MaxReviews, SoldByLineItems) /\ faulty = FALSE

\* The statement at which the store fails a call of n statements (0: none).
FailAt(n) == IF faulty THEN 0..n ELSE {0}

Repopulate ==
  /\ ~aborted
  /\ \E r \in {RepopulateCall(failAt, views) : failAt \in FailAt(13)} :
    /\ PopularItems' = r.popular
    /\ DefinitiveRatings' = r.definitive
    /\ fkeyPresent' = r.fkey
    /\ aborted' = r.aborted
    /\ refreshed' = r.done
    /\ last' = [NoCall EXCEPT !.op = "repopulate", !.live = TRUE, !.ret = r.ret,
                              !.fault = r.fault]
    /\ UNCHANGED <<Review, Sold, views, scanOrder, faulty>>
    /\ UNCHANGED matcherVars

RecommendGeneric ==
  /\ refreshed /\ ~aborted
  /\ \E k \in 1..MaxK : \E items \in {GenericItems(k)} :
       \E r \in {RecommendGenericCall(k, items, failAt, views) :
                   failAt \in FailAt(8)} :
         /\ aborted' = r.aborted
         /\ views' = r.views
         /\ last' = [NoCall EXCEPT !.op = "recommend_generic", !.live = TRUE, !.k = k,
                                   !.kind = r.kind, !.items = r.items,
                                   !.fault = r.fault]
  /\ UNCHANGED <<Review, Sold, PopularItems, DefinitiveRatings, fkeyPresent,
                 refreshed, scanOrder, faulty>>
  /\ UNCHANGED matcherVars

Recommend ==
  /\ refreshed /\ ~aborted
  /\ \E cust \in Customers, k \in 1..MaxK :
       \E plan \in {RecommendPlan(cust, k, gr) : gr \in BOOLEAN} :
         \E r \in {RecommendCall(k, plan, failAt, views) :
                     failAt \in FailAt(24)} :
           /\ aborted' = r.aborted
           /\ views' = r.views
           /\ last' = [NoCall EXCEPT !.op = "recommend", !.live = TRUE,
                                     !.cust = cust, !.k = k, !.kind = r.kind,
                                     !.items = r.items, !.fault = r.fault,
                                     !.fellBack = r.fellBack,
                                     !.curator = r.curator]
  /\ UNCHANGED <<Review, Sold, PopularItems, DefinitiveRatings, fkeyPresent,
                 refreshed, scanOrder, faulty>>
  /\ UNCHANGED matcherVars

\* A call on a connection whose transaction is failed: its first execute
\* raises pg.Error, so recommend_generic and recommend return None (140-141,
\* 266-267) and repopulate returns -1 (316-317), whatever the arguments.
CallOnFailedTransaction ==
  /\ aborted
  /\ \E op \in {"repopulate", "recommend_generic", "recommend"} :
       last' = [NoCall EXCEPT !.op = op,
                              !.ret = IF op = "repopulate" THEN 0 - 1 ELSE 0]
  /\ UNCHANGED <<Review, Sold, PopularItems, DefinitiveRatings, fkeyPresent,
                 aborted, views, refreshed, scanOrder, faulty>>
  /\ UNCHANGED matcherVars

Next == Repopulate \/ RecommendGeneric \/ Recommend \/ CallOnFailedTransaction

Spec == Init /\ [][Next]_vars

SpecFaulty == InitFaulty /\ [][Next]_vars

SpecBought == InitBought /\ [][Next]_vars

\* ------------------------------------------- find_similar_curator on its own
StoreIdle ==
  /\ Review = [cell \in Cells |-> NoRating]
  /\ Sold = [cell \in Cells |-> 0]
  /\ PopularItems = {}
  /\ DefinitiveRatings = [cell \in Cells |-> NoRating]
  /\ fkeyPresent = TRUE
  /\ aborted = FALSE
  /\ views = {}
  /\ refreshed = FALSE
  /\ scanOrder = [j \in ScanIds |-> j]
  /\ faulty = FALSE
  /\ last = NoCall

MatcherItems == 1..(IF NumRated < NumItems THEN NumRated ELSE NumItems)
MatcherPeople == 1..NumPeople

\* The set_rating calls that fill a table with the ratings g, person by
\* person and item by item.
RECURSIVE RatingRows(_, _)
RatingRows(g, cells) ==
  IF cells = {} THEN <<>>
  ELSE LET c == CHOOSE x \in cells : \A y \in cells :
                  x[1] < y[1] \/ (x[1] = y[1] /\ x[2] <= y[2])
       IN (IF g[c] = NoRating THEN <<>> ELSE <<<<c[1], c[2], g[c]>>>>)
          \o RatingRows(g, cells \ {c})

TableOf(g) ==
  SetRatings(NewRatingsTable(Cardinality(MatcherPeople), Cardinality(MatcherItems)),
             FALSE, RatingRows(g, DOMAIN g))

\* The arguments of a call: a filled table, curators that all have a row in
\* it (the docstring's precondition, lines 337-338, which recommend keeps),
\* in any order, and a target that may have no row (recommend passes such a
\* target when the customer has rated no Popular Item).
InitMatcher ==
  /\ StoreIdle
  /\ mTable \in {TableOf(g) : g \in [MatcherPeople \X MatcherItems -> 0..MaxRating]}
  /\ mCurators \in {s \in DistinctSeqs(MatcherPeople) :
                       \A c \in Range(s) : HasRow(mTable, c)}
  /\ mTarget \in MatcherPeople
  /\ mResult = [kind |-> "none", curator |-> NoCurator]
  /\ mDone = FALSE

FindCall ==
  /\ ~mDone
  /\ mResult' = FindSimilarCurator(mTable, mCurators, mTarget)
  /\ mDone' = TRUE
  /\ UNCHANGED <<mTable, mCurators, mTarget>>
  /\ UNCHANGED storeVars

NextMatcher == FindCall

SpecMatcher == InitMatcher /\ [][NextMatcher]_vars

\* ============================================================== properties
\* ------------------------------------- find_similar_curator (SpecMatcher)
\* What the table holds, read cell by cell rather than row by row.
MHasRow(p) == \E i \in Items : mTable.cells[<<p, i>>] # NoRating
MOverlap(c) ==
  {i \in Items : /\ mTable.cells[<<c, i>>] # NoRating
                 /\ mTable.cells[<<mTarget, i>>] # NoRating}
MDiffSum(c) ==
  SumOver(MOverlap(c),
          [i \in MOverlap(c) |->
             Abs(mTable.cells[<<c, i>>] - mTable.cells[<<mTarget, i>>])])
\* The mean absolute difference of c is smaller than that of d (both overlap).
MCloser(c, d) ==
  MDiffSum(c) * Cardinality(MOverlap(d)) < MDiffSum(d) * Cardinality(MOverlap(c))
MOverlapping == {c \in Range(mCurators) : MOverlap(c) # {}}
MBest == {c \in MOverlapping : \A d \in MOverlapping : ~MCloser(d, c)}
MFirstBest ==
  mCurators[MinOf({j \in 1..Len(mCurators) : mCurators[j] \in MBest})]
MReturned(c) == mResult = [kind |-> "return", curator |-> c]

\* C2, as claimed: find_similar_curator returns None if and only if no
\* curator of curator_ids shares a rated item with the target, also when the
\* target has no row in the table; a curator without overlap is never
\* returned.
C2_NoneIffNoOverlap ==
  mDone => /\ MReturned(NoCurator) <=> MOverlapping = {}
           /\ mResult.curator \in MOverlapping \cup {NoCurator}

\* C2, amended: for a target that has a row, find_similar_curator returns
\* None if and only if no curator of curator_ids shares a rated item with it,
\* and whatever it returns otherwise is a curator that does; for a target
\* without a row it raises TypeError when some curator of curator_ids has a
\* rating, and returns None when none has (an empty curator_ids).
C2_NoneIffNoOverlapGivenRow ==
  mDone =>
    IF MHasRow(mTarget)
      THEN /\ mResult.kind = "return"
           /\ mResult.curator = NoCurator <=> MOverlapping = {}
           /\ mResult.curator \in MOverlapping \cup {NoCurator}
      ELSE IF \E c \in Range(mCurators) : MHasRow(c)
             THEN mResult.kind = "TypeError"
             ELSE MReturned(NoCurator)

\* Several curators, none of whom shares a rated item with a target that has
\* a row: None is returned.
C2_Witness ==
  /\ mDone /\ MHasRow(mTarget) /\ Len(mCurators) >= 2
  /\ MOverlapping = {} /\ MReturned(NoCurator)

\* C3: when some curator of curator_ids shares a rated item with the target,
\* find_similar_curator returns the curator of the smallest mean absolute
\* difference over the shared items, and of several at that minimum the one
\* that comes first in curator_ids.
C3_FirstOfTheClosest ==
  (mDone /\ MOverlapping # {}) => MReturned(MFirstBest)

\* Two curators at the same smallest mean, reached over different numbers of
\* shared items; the one returned comes first in curator_ids and has the
\* larger id.
C3_Witness ==
  /\ mDone
  /\ \E c, d \in MBest :
       /\ c > d /\ MReturned(c)
       /\ Cardinality(MOverlap(c)) # Cardinality(MOverlap(d))
       /\ MDiffSum(c) > 0

\* --------------------------------------------------- the store's operations
\* The last call ran on a connection whose transaction had not failed.
LiveCall(op) == last.live /\ last.op = op

\* The list the last call returned was built by recommend_generic, or by
\* recommend from the ratings of the curator it chose.
GenericProduced ==
  /\ last.live /\ last.kind = "list"
  /\ last.op = "recommend_generic" \/ (last.op = "recommend" /\ last.fellBack)
CuratorProduced == LiveCall("recommend") /\ last.kind = "list" /\ ~last.fellBack

\* The store's tables, read row by row.
ReviewScore(i) ==
  [num |-> SumOver(Customers, [c \in Customers |-> Review[c, i]]),
   den |-> Cardinality({c \in Customers : Review[c, i] # NoRating})]
CuratorScore(i) ==
  [num |-> SumOver(Customers, [c \in Customers |-> DefinitiveRatings[c, i]]),
   den |-> Cardinality({c \in Customers : DefinitiveRatings[c, i] # NoRating})]
RatedPopular == {i \in PopularItems : ReviewScore(i).den > 0}
CuratorRatedPopular == {i \in PopularItems : CuratorScore(i).den > 0}
Unbought(cust, curator) ==
  {i \in Items : /\ curator # NoCurator
                 /\ DefinitiveRatings[curator, i] # NoRating
                 /\ Sold[cust, i] = 0}
Smaller(a, b) == IF a < b THEN a ELSE b

\* The candidates the last returned list was chosen from, and their scores.
LastCandidates ==
  IF CuratorProduced THEN Unbought(last.cust, last.curator) ELSE RatedPopular
LastScore(i) ==
  IF CuratorProduced
    THEN [num |-> DefinitiveRatings[last.curator, i], den |-> 1]
    ELSE ReviewScore(i)
\* The first k candidates by score descending, then item ID ascending.
LastBefore(i) ==
  {j \in LastCandidates :
     \/ ScoreGT(LastScore(j), LastScore(i))
     \/ ScoreEQ(LastScore(j), LastScore(i)) /\ j < i}
LastTopK ==
  [r \in 1..Smaller(last.k, Cardinality(LastCandidates)) |->
     CHOOSE i \in LastCandidates : Cardinality(LastBefore(i)) = r - 1]
\* The number of candidates that score at least the k-th highest score.
LastAtBoundary ==
  Cardinality({i \in LastCandidates :
                 ScoreGE(LastScore(i), LastScore(LastTopK[last.k]))})
\* The returned list was ranked: it was not the unranked listing of a Popular
\* Item set of at most k members (line 102).
LastRanked ==
  \/ CuratorProduced
  \/ GenericProduced /\ Cardinality(PopularItems) > last.k

\* C1: recommend(cust, k) returns the list recommend_generic(k) returns when
\* the customer shares no rated Popular Item with any curator (also when the
\* customer has rated no Popular Item), or when the chosen curator has rated
\* no item the customer has not bought; it neither raises nor returns None.
\* (A table too small for the ratings is left aside: that is RatingsTable's
\* doing, whichever way it is built.)
C1_FallsBackToGeneric ==
  (/\ LiveCall("recommend") /\ last.kind # "IndexError"
   /\ \/ ~\E c \in Customers, i \in PopularItems :
            DefinitiveRatings[c, i] # NoRating /\ Review[last.cust, i] # NoRating
      \/ last.curator # NoCurator /\ Unbought(last.cust, last.curator) = {})
  => (last.kind = "list" /\ last.items = GenericItems(last.k))

\* C4: a returned list has at most k items, and fewer than k only when there
\* are fewer than k candidates: Popular Items when the set has at most k
\* members, rated Popular Items otherwise, or items the chosen curator has
\* rated and the customer has not bought.
C4_AtMostK ==
  (last.live /\ last.kind = "list" /\ last.op # "repopulate") =>
    LET pool == IF CuratorProduced
                  THEN Cardinality(Unbought(last.cust, last.curator))
                ELSE IF Cardinality(PopularItems) <= last.k
                  THEN Cardinality(PopularItems)
                ELSE Cardinality(RatedPopular)
    IN /\ Len(last.items) <= last.k
       /\ Len(last.items) < last.k => pool < last.k

\* recommend returns one item for k = 2: the chosen curator has rated one item
\* that the customer has not bought.
C4_Witness ==
  /\ CuratorProduced /\ last.k = 2 /\ Len(last.items) = 1
  /\ Cardinality(Unbought(last.cust, last.curator)) = 1

\* C5, as claimed: whenever there are more than k candidates, the returned
\* list is the first k of the candidates by score descending and, among
\* equal scores, item ID ascending.
C5_TiesByItemId ==
  (LastRanked /\ Cardinality(LastCandidates) > last.k) => last.items = LastTopK

\* C5, amended: whenever there are more than k candidates, the returned list
\* holds the same k items as the first k of the candidates by score
\* descending then item ID ascending, in an order of descending score; it is
\* exactly that list when more than k candidates score at least the k-th
\* highest score.  (When exactly k do, equal scores come in the store's order.)
C5_TiesByItemIdPastK ==
  (LastRanked /\ Cardinality(LastCandidates) > last.k) =>
    /\ Len(last.items) = last.k
    /\ Range(last.items) = Range(LastTopK)
    /\ \A a, b \in 1..Len(last.items) :
         a < b => ScoreGE(LastScore(last.items[a]), LastScore(last.items[b]))
    /\ LastAtBoundary > last.k => last.items = LastTopK

\* More candidates than k score at least the k-th highest score, the store
\* yields them in another order than by item ID, and the list returned is in
\* item ID order.
C5_Witness ==
  /\ LastRanked /\ Cardinality(LastCandidates) > last.k
  /\ LastAtBoundary > last.k
  /\ scanOrder[1] > scanOrder[2]
  /\ last.k = 2 /\ last.items = LastTopK
  /\ ScoreEQ(LastScore(last.items[1]), LastScore(last.items[2]))

\* C6: of two consecutive calls of one entry point with the same arguments on
\* one connection, with no refresh, purchase or rating between them, the
\* second gives the caller what the first gave: the first leaves nothing
\* behind that changes or fails the second.  (Calls that end in a table too
\* small for the ratings are left aside, as in C1.)
C6_SecondCallAlike ==
  [][(/\ last.live /\ last'.live
      /\ last.op \in {"recommend_generic", "recommend"}
      /\ last'.op = last.op /\ last'.cust = last.cust /\ last'.k = last.k
      /\ last.kind # "IndexError" /\ last'.kind # "IndexError")
     => (last'.kind = last.kind /\ last'.items = last.items)]_vars

\* C7: a call of recommend_generic or recommend in which the store fails a
\* statement, of the method itself or of the recommend_generic that recommend
\* falls back to, returns None: no list, and nothing raised.
C7_FailureGivesNone ==
  (last.live /\ last.op \in {"recommend_generic", "recommend"} /\ last.fault)
  => (last.kind = "none" /\ last.items = <<>>)

\* The store fails a statement of the recommend_generic that recommend has
\* fallen back to, and recommend returns None.
C7_Witness ==
  /\ LiveCall("recommend") /\ last.fault /\ last.fellBack
  /\ last.kind = "none"

\* C8: every item of a list that recommend returns without falling back is
\* one the chosen curator has a Definitive Rating on and the customer has no
\* purchase of.
C8_RatedAndNotBought ==
  CuratorProduced =>
    \A j \in 1..Len(last.items) :
      /\ DefinitiveRatings[last.curator, last.items[j]] # NoRating
      /\ Sold[last.cust, last.items[j]] = 0

\* recommend returns items of the chosen curator although the customer has
\* bought another item that curator has rated.
C8_Witness ==
  /\ CuratorProduced /\ last.items # <<>>
  /\ \E i \in Items : /\ DefinitiveRatings[last.curator, i] # NoRating
                      /\ Sold[last.cust, i] > 0

\* The list recommend_generic returned is a ranking of the Popular Items by
\* score: it holds the best k (or all) of the Popular Items that have a score,
\* best first.
RankedBy(score(_)) ==
  LET scored == {i \in PopularItems : score(i).den > 0}
  IN /\ Range(last.items) \subseteq scored
     /\ Len(last.items) = Smaller(last.k, Cardinality(scored))
     /\ Cardinality(Range(last.items)) = Len(last.items)
     /\ \A x \in Range(last.items), y \in scored \ Range(last.items) :
          ScoreGE(score(x), score(y))
     /\ \A a, b \in 1..Len(last.items) :
          a < b => ScoreGE(score(last.items[a]), score(last.items[b]))

\* C9, as claimed: when there are more than k Popular Items, recommend_generic
\* ranks them by the average of the curators' ratings (the Definitive
\* Ratings); other customers' ratings have no influence, and a Popular Item
\* without rating is left out.
C9_RanksByCuratorAverage ==
  (LiveCall("recommend_generic") /\ last.kind = "list"
   /\ Cardinality(PopularItems) > last.k)
  => RankedBy(CuratorScore)

\* C9, amended: when there are more than k Popular Items, recommend_generic
\* ranks them by the average of all the ratings on the item in Review,
\* those of curators and of other customers alike (DefinitiveRatings is not
\* read), and a Popular Item without a Review row is left out.
C9_RanksByReviewAverage ==
  (LiveCall("recommend_generic") /\ last.kind = "list"
   /\ Cardinality(PopularItems) > last.k)
  => RankedBy(ReviewScore)

\* recommend_generic returns an item that only a customer who is no curator
\* has rated, ahead of an item a curator has rated.
C9_Witness ==
  /\ LiveCall("recommend_generic") /\ last.kind = "list"
  /\ Cardinality(PopularItems) > last.k
  /\ \E x \in Range(last.items) :
       /\ CuratorScore(x).den = 0
       /\ CuratorRatedPopular \ Range(last.items) # {}

\* C10: every repopulate on a store that fails no statement returns 0 and
\* leaves PopularItems the two best sellers of each category by summed
\* quantity and DefinitiveRatings the curators' ratings on those items, no
\* other row.
C10_EveryRefreshSucceeds ==
  LiveCall("repopulate") =>
    /\ last.ret = 0
    /\ \A i \in PopularItems : TotalNumber(i) > 0
    /\ \A i \in Items :
         LET sold == {j \in Items : TotalNumber(j) > 0 /\ Category(j) = Category(i)}
         IN /\ Cardinality(PopularItems \cap sold) = Smaller(2, Cardinality(sold))
            /\ \A x \in PopularItems \cap sold, y \in sold \ PopularItems :
                 TotalNumber(x) >= TotalNumber(y)
    /\ \A c \in Customers, i \in Items :
         DefinitiveRatings[c, i] =
           IF c \in Curators /\ i \in PopularItems THEN Review[c, i] ELSE NoRating

====
